---- MODULE Spec2Model ----
(***************************************************************************)
(* The disk cloner of src/disk_backup/main.rs: DiskCloner::clone_disk, its *)
(* three copy strategies, the MBR partition table rescaler and the shared  *)
(* progress counter.                                                       *)
(*                                                                         *)
(* A file is a sequence of bytes (0..255); a path either names a file or   *)
(* names nothing (srcExists / dstExists).  One behaviour of Spec is one    *)
(* call of clone_disk on a freshly constructed DiskCloner, with a          *)
(* concurrent observer polling get_progress.  SpecRescale applies          *)
(* adjust_partition_table alone to a file handle and a factor.             *)
(***************************************************************************)
EXTENDS Integers, Sequences, FiniteSets, TLC

VARIABLES
    mode,          \* DiskCloner.mode
    buffer_size,   \* DiskCloner.buffer_size
    progress,      \* DiskCloner.progress (AtomicU64)
    src,           \* bytes of the file at source_path
    srcExists,     \* whether source_path names a file
    dst,           \* bytes of the file at dest_path
    dstExists,     \* whether dest_path names a file
    dst0,          \* the destination's bytes when the operation started
    dstExists0,    \* whether dest_path named a file when the operation started
    pc,            \* position of the copy thread
    source_info,   \* DiskInfo of the source (clone_disk line 63)
    dest_info,     \* DiskInfo of the destination (clone_disk line 64)
    bytes_copied,  \* the running strategy's bytes_copied
    srcPos,        \* cursor of the source handle
    dstPos,        \* cursor of the destination handle
    dstOpen,       \* the destination handle has been opened
    dstReadable,   \* the destination handle was opened with read access
    written,       \* bytes handed to the destination by successful or partial writes
    scale_factor,  \* auto_fit_clone's scale_factor, as the fraction num / den
    adjustCalled,  \* adjust_partition_table has been entered
    fault,         \* the I/O fault the environment injected, "none" if none
    result,        \* what the operation returned
    observed       \* what the observer's last get_progress returned

vars == <<mode, buffer_size, progress, src, srcExists, dst, dstExists, dst0,
          dstExists0, pc,
          source_info, dest_info, bytes_copied, srcPos, dstPos, dstOpen,
          dstReadable, written, scale_factor, adjustCalled, fault, result,
          observed>>

----------------------------------------------------------------------------
(* Bounds of the model *)

\* source files hold 0..MaxSrc bytes
MaxSrc == 3
\* small destination files hold 0..MaxDst bytes
MaxDst == 4
\* buffer_size ranges over 1..MaxBuffer (the code fixes one value, 1 MiB)
MaxBuffer == 3

(* Program constants *)

\* SeekFrom::Start(0x1BE)
TableOffset == 446
\* [0u8; 64]
TableSize == 64
\* table.chunks_mut(16)
EntrySize == 16
\* sector_size: 512
SectorSize == 512

Min(a, b) == IF a < b THEN a ELSE b

Modes == {"SectorBySector", "SmartClone", "AutoFit"}

----------------------------------------------------------------------------
(* Files *)

Fill(n, b) == [i \in 1..n |-> b]

\* the bytes a read of n bytes at cursor pos puts in the buffer
ReadSlice(file, pos, n) == SubSeq(file, pos + 1, pos + n)

\* WriteAt with the cursor ignored: every write lands at the start of the file
WriteAt_NoCursor(file, pos, data) ==
    [i \in 1..(IF Len(data) > Len(file) THEN Len(data) ELSE Len(file)) |->
        IF i <= Len(data) THEN data[i] ELSE file[i]]

\* the file after data has been written at cursor pos; a regular file grows,
\* and a gap left by a seek past the end reads as zeros
WriteAt(file, pos, data) ==
    LET end == pos + Len(data)
        newLen == IF end > Len(file) THEN end ELSE Len(file)
    IN  [i \in 1..newLen |->
            IF i > pos /\ i <= end THEN data[i - pos]
            ELSE IF i <= Len(file) THEN file[i]
            ELSE 0]

----------------------------------------------------------------------------
(* CloneError and DiskInfo *)

NoResult == [kind |-> "none", err |-> "none", offset |-> 0]
Ok == [kind |-> "Ok", err |-> "none", offset |-> 0]
\* CloneError::Io(e), e the io::ErrorKind
Io(e) == [kind |-> "Io", err |-> e, offset |-> 0]
DiskSizeMismatch == [kind |-> "DiskSizeMismatch", err |-> "none", offset |-> 0]
InvalidLayout == [kind |-> "InvalidLayout", err |-> "none", offset |-> 0]
BadSector(n) == [kind |-> "BadSector", err |-> "none", offset |-> n]

NoInfo == [total_size |-> 0, used_space |-> 0, sector_size |-> 0]

\* get_disk_info on a path that names a file: used_space is the file's length
get_disk_info(file) ==
    [total_size |-> Len(file), used_space |-> Len(file), sector_size |-> SectorSize]

\* SizeMismatch with the comparison turned round
SizeMismatch_Reversed(source_total, dest_total, m) ==
    dest_total > source_total /\ m # "SmartClone"

\* SizeMismatch applied to SectorBySector alone
SizeMismatch_SectorOnly(source_total, dest_total, m) ==
    source_total > dest_total /\ m = "SectorBySector"

\* the size check of clone_disk
SizeMismatch(source_total, dest_total, m) ==
    source_total > dest_total /\ m # "SmartClone"

----------------------------------------------------------------------------
(* Progress *)

\* Percentage of what remains instead of what is done
Percentage_Remaining(current, total) ==
    IF total = 0 THEN 0 ELSE ((total - current) * 100) \div total

\* update_progress: (current as f64 / total as f64 * 100.0) as u64.  On the
\* sizes of this model the f64 result truncates to the exact quotient; 0/0 is
\* NaN, which the cast turns into 0.
Percentage(current, total) ==
    IF total = 0 THEN 0 ELSE (current * 100) \div total

\* get_progress: the stored value as f64, divided by 100.0
get_progress(p) == [polled |-> TRUE, num |-> p, den |-> 100]

----------------------------------------------------------------------------
(* The streaming copy: what one read and one write can do *)

ReadErrors == {"InvalidData", "Other"}

\* the results of source.read(&mut buffer[..bytes_to_read]) at cursor pos:
\* 1..bytes_to_read bytes while the file has them, 0 at its end, or an error
ReadOutcomes(file, pos, bytes_to_read) ==
    LET avail == Len(file) - pos
    IN  {[ok |-> TRUE, n |-> k, kind |-> "none"] : k \in 1..Min(bytes_to_read, avail)}
        \cup (IF avail <= 0 THEN {[ok |-> TRUE, n |-> 0, kind |-> "none"]} ELSE {})
        \cup {[ok |-> FALSE, n |-> 0, kind |-> e] : e \in ReadErrors}

\* the results of dest.write_all(&buffer[..n]): all n bytes, or an error
\* after k < n of them
WriteOutcomes(n) ==
    {[ok |-> TRUE, n |-> n]} \cup {[ok |-> FALSE, n |-> k] : k \in 0..(n - 1)}

\* clone_sector_by_sector's Err(e) arm
SectorReadError(e, copied) ==
    IF e = "InvalidData" THEN BadSector(copied) ELSE Io(e)

\* smart_clone's Err(e) arm
SmartReadError(e, copied) == Io(e)

----------------------------------------------------------------------------
(* The partition table rescaler.  A u32 is kept as its two 16-bit halves,  *)
(* [hi, lo], so that every value up to 2^32 - 1 is representable.          *)

U32Max == [hi |-> 65535, lo |-> 65535]

\* u32::from_le_bytes([b[1], b[2], b[3], b[4]])
from_le_bytes(b) == [lo |-> b[1] + 256 * b[2], hi |-> b[3] + 256 * b[4]]

\* u32::to_le_bytes
to_le_bytes(v) == <<v.lo % 256, v.lo \div 256, v.hi % 256, v.hi \div 256>>

\* (length_sectors as f64 * scale_factor) as u32, scale_factor = f.num / f.den.
\* The cast truncates toward zero, saturates at u32::MAX and turns NaN into 0.
\* A zero denominator makes the factor infinite (or NaN when f.num is 0 too).
ScaleLength(v, f) ==
    IF f.den = 0
    THEN IF f.num = 0 \/ (v.hi = 0 /\ v.lo = 0) THEN [hi |-> 0, lo |-> 0] ELSE U32Max
    ELSE LET pl == v.lo * f.num
             ph == v.hi * f.num + pl \div 65536
             qh == ph \div f.den
             ql == ((ph % f.den) * 65536 + (pl % 65536)) \div f.den
         IN  IF qh > 65535 THEN U32Max ELSE [hi |-> qh, lo |-> ql]

\* AdjustEntry without the test of the type byte
AdjustEntry_AnyType(chunk, f) ==
    SubSeq(chunk, 1, 12)
        \o to_le_bytes(ScaleLength(from_le_bytes(SubSeq(chunk, 13, 16)), f))

\* one iteration of `for chunk in table.chunks_mut(16)`
AdjustEntry(chunk, f) ==
    IF chunk[5] # 0
    THEN LET length_sectors == from_le_bytes(SubSeq(chunk, 13, 16))
             new_length == ScaleLength(length_sectors, f)
         IN  SubSeq(chunk, 1, 12) \o to_le_bytes(new_length)
    ELSE chunk

Chunk(table, k) == SubSeq(table, (k - 1) * EntrySize + 1, k * EntrySize)

\* the loop over the four entries of the 64-byte table
AdjustTable(table, f) ==
    AdjustEntry(Chunk(table, 1), f) \o AdjustEntry(Chunk(table, 2), f)
        \o AdjustEntry(Chunk(table, 3), f) \o AdjustEntry(Chunk(table, 4), f)

\* the 64 bytes read_exact returns after the seek to 0x1BE
TableOf(file) == SubSeq(file, TableOffset + 1, TableOffset + TableSize)

HoldsTable(file) == Len(file) >= TableOffset + TableSize

AdjustFaults == {"none", "seek", "read", "seek_back", "write"}

\* adjust_partition_table on the destination handle: the value it returns
\* and the file and cursor it leaves, given the cursor it starts at, the
\* fault flt met on the way and (for a failed write_all) the number k of
\* bytes that reached the file
AdjustOutcome(file, cursor, readable, f, flt, k) ==
    IF flt = "seek"
    THEN [res |-> Io("Other"), file |-> file, pos |-> cursor, put |-> 0]
    ELSE IF ~readable
    THEN [res |-> Io("BadFd"), file |-> file, pos |-> TableOffset, put |-> 0]
    ELSE IF flt = "read"
    THEN [res |-> Io("Other"), file |-> file, pos |-> TableOffset, put |-> 0]
    ELSE IF ~HoldsTable(file)
    THEN [res |-> Io("UnexpectedEof"), file |-> file, pos |-> Len(file), put |-> 0]
    ELSE LET table == AdjustTable(TableOf(file), f)
         IN  IF flt = "seek_back"
             THEN [res |-> Io("Other"), file |-> file,
                   pos |-> TableOffset + TableSize, put |-> 0]
             ELSE IF flt = "write"
             THEN [res |-> Io("Other"),
                   file |-> WriteAt(file, TableOffset, SubSeq(table, 1, k)),
                   pos |-> TableOffset + k, put |-> k]
             ELSE [res |-> Ok, file |-> WriteAt(file, TableOffset, table),
                   pos |-> TableOffset + TableSize, put |-> TableSize]

----------------------------------------------------------------------------
(* The files the model starts from *)

\* a source of n incrementing bytes 1, 2, ..., n
Incr(n) == [i \in 1..n |-> i]

SrcFiles == {Incr(n) : n \in 0..MaxSrc}

\* a 16-byte partition entry: status, CHS start, type, CHS end, start, length
Entry(type, start, length) == <<128, 1, 1, 0, type, 254, 255, 255>> \o start \o length

Lengths == { <<0, 0, 0, 0>>,            \* 0
             <<3, 0, 0, 0>>,            \* 3
             <<232, 3, 0, 0>>,          \* 1000
             <<0, 0, 0, 128>>,          \* 2^31
             <<255, 255, 255, 255>> }   \* 2^32 - 1

Entries == {Entry(t, <<63, 0, 0, 0>>, l) : t \in {0, 131}, l \in Lengths}

\* tables of a free first entry, a second entry of three kinds, an empty
\* entry whose length bytes are not zero, and a small non-empty one
Tables == {e1 \o e2 \o Entry(0, <<0, 8, 0, 0>>, <<232, 3, 0, 0>>)
              \o Entry(7, <<0, 16, 0, 0>>, <<3, 0, 0, 0>>) :
           e1 \in Entries,
           e2 \in { Entry(0, <<0, 4, 0, 0>>, <<0, 0, 0, 0>>),
                    Entry(131, <<0, 4, 0, 0>>, <<232, 3, 0, 0>>),
                    Entry(12, <<0, 4, 0, 0>>, <<255, 255, 255, 255>>) }}

\* a pre-allocated destination image with a partition table
MbrImage ==
    Fill(TableOffset, 0) \o Entry(131, <<63, 0, 0, 0>>, <<232, 3, 0, 0>>)
        \o Entry(0, <<0, 0, 0, 0>>, <<0, 0, 0, 0>>)
        \o Entry(0, <<0, 8, 0, 0>>, <<232, 3, 0, 0>>)
        \o Entry(7, <<0, 16, 0, 0>>, <<3, 0, 0, 0>>)

DstFiles == {Fill(n, 238) : n \in 0..MaxDst} \cup {MbrImage}

\* the files adjust_partition_table is applied to: a table behind 446 bytes,
\* or a file one byte short of holding the table
RescaleFiles ==
    {Fill(TableOffset, 0) \o t : t \in Tables}
        \cup {Fill(TableOffset + TableSize - 1, 0)}

\* the factors adjust_partition_table is applied to: 0.5, 1.0, 1.5, 2.0
\* (binary fractions, whose f64 products with a u32 are exact)
Factors == { [num |-> 1, den |-> 2], [num |-> 1, den |-> 1],
             [num |-> 3, den |-> 2], [num |-> 2, den |-> 1] }

----------------------------------------------------------------------------
(* Initial states *)

\* DiskCloner::new(mode), before clone_disk is called
Init ==
    /\ mode \in Modes
    /\ buffer_size \in 1..MaxBuffer
    /\ progress = 0
    /\ srcExists \in BOOLEAN
    /\ src \in (IF srcExists THEN SrcFiles ELSE {<<>>})
    /\ dstExists \in BOOLEAN
    /\ dst \in (IF dstExists THEN DstFiles ELSE {<<>>})
    /\ dst0 = dst
    /\ dstExists0 = dstExists
    /\ pc = "start"
    /\ source_info = NoInfo
    /\ dest_info = NoInfo
    /\ bytes_copied = 0
    /\ srcPos = 0
    /\ dstPos = 0
    /\ dstOpen = FALSE
    /\ dstReadable = FALSE
    /\ written = 0
    /\ scale_factor = [num |-> 0, den |-> 0]
    /\ adjustCalled = FALSE
    /\ fault = "none"
    /\ result = NoResult
    /\ observed = [polled |-> FALSE, num |-> 0, den |-> 100]

\* adjust_partition_table about to run on a handle and a factor
InitRescale ==
    /\ mode = "AutoFit"
    /\ buffer_size = 1
    /\ progress = 0
    /\ srcExists = TRUE
    /\ src = <<>>
    /\ dstExists = TRUE
    /\ dst \in RescaleFiles
    /\ dst0 = dst
    /\ dstExists0 = dstExists
    /\ pc = "adjust"
    /\ source_info = NoInfo
    /\ dest_info = NoInfo
    /\ bytes_copied = 0
    /\ srcPos = 0
    /\ dstPos = 0
    /\ dstOpen = TRUE
    /\ dstReadable \in BOOLEAN
    /\ written = 0
    /\ scale_factor \in Factors
    /\ adjustCalled = FALSE
    /\ fault = "none"
    /\ result = NoResult
    /\ observed = [polled |-> FALSE, num |-> 0, den |-> 100]

----------------------------------------------------------------------------
(* Operations *)

\* OpenOptions::new().write(true).create(true).open(dest_path): the file
\* the handle is on (created empty when the path named none, never truncated)
OpenDest(exists, file) == IF exists THEN file ELSE <<>>

\* the access the destination handle is opened with: write(true), no read(true)
DestReadAccess == FALSE

\* the strategy clone_disk dispatches to
Dispatch(m) == IF m = "SectorBySector" THEN "sector" ELSE "smart"

\* clone_disk up to its dispatch: both get_disk_info calls, the size check,
\* the two opens, and (in AutoFit) auto_fit_clone's scale_factor
clone_disk ==
    /\ pc = "start"
    /\ IF ~srcExists \/ ~dstExists
       THEN /\ pc' = "done"
            /\ result' = Io("NotFound")
            /\ source_info' = IF srcExists THEN get_disk_info(src) ELSE source_info
            /\ UNCHANGED <<dest_info, dst, dstExists, dstOpen, dstReadable, scale_factor>>
       ELSE LET si == get_disk_info(src)
                di == get_disk_info(dst)
            IN  /\ source_info' = si
                /\ dest_info' = di
                /\ IF SizeMismatch(si.total_size, di.total_size, mode)
                   THEN /\ pc' = "done"
                        /\ result' = DiskSizeMismatch
                        /\ UNCHANGED <<dst, dstExists, dstOpen, dstReadable,
                                       scale_factor>>
                   ELSE /\ dst' = OpenDest(dstExists, dst)
                        /\ dstExists' = TRUE
                        /\ dstOpen' = TRUE
                        /\ dstReadable' = DestReadAccess
                        /\ scale_factor' =
                               IF mode = "AutoFit"
                               THEN [num |-> di.total_size, den |-> si.total_size]
                               ELSE scale_factor
                        /\ pc' = Dispatch(mode)
                        /\ result' = result
    /\ UNCHANGED <<mode, buffer_size, progress, src, srcExists, dst0, dstExists0,
                   bytes_copied,
                   srcPos, dstPos, written, adjustCalled, fault, observed>>

\* one pass of clone_sector_by_sector's while loop, or its exit
clone_sector_by_sector ==
    /\ pc = "sector"
    /\ LET total_size == source_info.total_size
       IN  IF bytes_copied >= total_size
           THEN /\ pc' = "done"
                /\ result' = Ok
                /\ UNCHANGED <<progress, dst, bytes_copied, srcPos, dstPos, written, fault>>
           ELSE \E r \in ReadOutcomes(src, srcPos,
                                      Min(buffer_size, total_size - bytes_copied)) :
                  IF ~r.ok
                  THEN /\ pc' = "done"
                       /\ result' = SectorReadError(r.kind, bytes_copied)
                       /\ fault' = r.kind
                       /\ UNCHANGED <<progress, dst, bytes_copied, srcPos, dstPos, written>>
                  ELSE IF r.n = 0
                  THEN /\ pc' = "done"
                       /\ result' = Ok
                       /\ UNCHANGED <<progress, dst, bytes_copied, srcPos, dstPos,
                                      written, fault>>
                  ELSE \E w \in WriteOutcomes(r.n) :
                         /\ srcPos' = srcPos + r.n
                         /\ dst' = WriteAt(dst, dstPos,
                                           SubSeq(ReadSlice(src, srcPos, r.n), 1, w.n))
                         /\ dstPos' = dstPos + w.n
                         /\ written' = written + w.n
                         /\ IF w.ok
                            THEN /\ bytes_copied' = bytes_copied + r.n
                                 /\ progress' = Percentage(bytes_copied', total_size)
                                 /\ UNCHANGED <<pc, result, fault>>
                            ELSE /\ pc' = "done"
                                 /\ result' = Io("Other")
                                 /\ fault' = "write"
                                 /\ UNCHANGED <<progress, bytes_copied>>
    /\ UNCHANGED <<mode, buffer_size, src, srcExists, dstExists, dst0, dstExists0,
                   source_info,
                   dest_info, dstOpen, dstReadable, scale_factor, adjustCalled,
                   observed>>

\* one pass of smart_clone's while loop, or its exit; in AutoFit its return
\* value goes to auto_fit_clone, which goes on to adjust_partition_table
smart_clone ==
    /\ pc = "smart"
    /\ LET used_space == source_info.used_space
           returned == IF mode = "AutoFit" THEN "adjust" ELSE "done"
           value == IF mode = "AutoFit" THEN result ELSE Ok
       IN  IF bytes_copied >= used_space
           THEN /\ pc' = returned
                /\ result' = value
                /\ UNCHANGED <<progress, dst, bytes_copied, srcPos, dstPos, written, fault>>
           ELSE \E r \in ReadOutcomes(src, srcPos,
                                      Min(buffer_size, used_space - bytes_copied)) :
                  IF ~r.ok
                  THEN /\ pc' = "done"
                       /\ result' = SmartReadError(r.kind, bytes_copied)
                       /\ fault' = r.kind
                       /\ UNCHANGED <<progress, dst, bytes_copied, srcPos, dstPos, written>>
                  ELSE IF r.n = 0
                  THEN /\ pc' = returned
                       /\ result' = value
                       /\ UNCHANGED <<progress, dst, bytes_copied, srcPos, dstPos,
                                      written, fault>>
                  ELSE \E w \in WriteOutcomes(r.n) :
                         /\ srcPos' = srcPos + r.n
                         /\ dst' = WriteAt(dst, dstPos,
                                           SubSeq(ReadSlice(src, srcPos, r.n), 1, w.n))
                         /\ dstPos' = dstPos + w.n
                         /\ written' = written + w.n
                         /\ IF w.ok
                            THEN /\ bytes_copied' = bytes_copied + r.n
                                 /\ progress' = Percentage(bytes_copied', used_space)
                                 /\ UNCHANGED <<pc, result, fault>>
                            ELSE /\ pc' = "done"
                                 /\ result' = Io("Other")
                                 /\ fault' = "write"
                                 /\ UNCHANGED <<progress, bytes_copied>>
    /\ UNCHANGED <<mode, buffer_size, src, srcExists, dstExists, dst0, dstExists0,
                   source_info,
                   dest_info, dstOpen, dstReadable, scale_factor, adjustCalled,
                   observed>>

\* adjust_partition_table, whole, and the return of auto_fit_clone and
\* clone_disk after it
adjust_partition_table ==
    /\ pc = "adjust"
    /\ \E flt \in AdjustFaults :
         \E k \in (IF flt = "write" THEN 0..(TableSize - 1) ELSE {0}) :
           LET o == AdjustOutcome(dst, dstPos, dstReadable, scale_factor, flt, k)
           IN  /\ dst' = o.file
               /\ dstPos' = o.pos
               /\ written' = written + o.put
               /\ result' = o.res
               /\ fault' = IF o.res = Io("Other") THEN flt ELSE "none"
    /\ adjustCalled' = TRUE
    /\ pc' = "done"
    /\ UNCHANGED <<mode, buffer_size, progress, src, srcExists, dstExists, dst0, dstExists0,
                   source_info, dest_info, bytes_copied, srcPos, dstOpen, dstReadable,
                   scale_factor, observed>>

\* an observer on another thread calls get_progress
poll_progress ==
    /\ observed' = get_progress(progress)
    /\ UNCHANGED <<mode, buffer_size, progress, src, srcExists, dst, dstExists, dst0,
                   dstExists0, pc, source_info, dest_info, bytes_copied, srcPos, dstPos, dstOpen,
                   dstReadable, written, scale_factor, adjustCalled, fault, result>>

Next ==
    \/ clone_disk
    \/ clone_sector_by_sector
    \/ smart_clone
    \/ adjust_partition_table
    \/ poll_progress

Spec == Init /\ [][Next]_vars

NextRescale == adjust_partition_table

SpecRescale == InitRescale /\ [][NextRescale]_vars

----------------------------------------------------------------------------
(* Properties *)

\* the strategy's target total
Target == IF mode = "SectorBySector" THEN source_info.total_size
          ELSE source_info.used_space

\* the bytes of dst at offsets >= n are those the destination started with
TailUntouched(n) ==
    /\ Len(dst) = (IF Len(dst0) > n THEN Len(dst0) ELSE n)
    /\ \A i \in (n + 1)..Len(dst0) : dst[i] = dst0[i]

\* C1: with source.total_size > dest.total_size and a mode other than
\* SmartClone, clone_disk returns DiskSizeMismatch, never opens the
\* destination, changes no byte of it and does not update the progress value.
C1_PreflightNoWrite ==
    (pc # "start" /\ srcExists /\ dstExists0 /\ mode # "SmartClone"
        /\ Len(src) > Len(dst0))
    => /\ pc = "done"
       /\ result = DiskSizeMismatch
       /\ ~dstOpen
       /\ dst = dst0
       /\ written = 0
       /\ progress = 0

C1_Witness ==
    /\ pc = "done"
    /\ result = DiskSizeMismatch
    /\ mode = "AutoFit"
    /\ Len(src) > Len(dst0)
    /\ observed.polled

\* C2: a SectorBySector copy that met no read or write error ends with the
\* destination's first Len(src) bytes equal to the source's bytes, whatever
\* the buffer size and however the reads were split; the bytes behind them
\* are those the destination had.
C2_FullCopyFaithful ==
    (mode = "SectorBySector" /\ pc = "done" /\ result = Ok)
    => /\ Len(dst) >= Len(src)
       /\ SubSeq(dst, 1, Len(src)) = src
       /\ TailUntouched(Len(src))

C2_Witness ==
    /\ mode = "SectorBySector"
    /\ pc = "done"
    /\ result = Ok
    /\ Len(src) > buffer_size
    /\ buffer_size > 1
    /\ Len(dst0) > Len(src)

\* C3: a SmartClone copy that returns success has written exactly used_space
\* bytes, has left the progress value at 100, and has written no destination
\* byte at an offset >= used_space.
C3_UsedOnlyComplete ==
    (mode = "SmartClone" /\ pc = "done" /\ result = Ok)
    => /\ written = source_info.used_space
       /\ progress = 100
       /\ TailUntouched(source_info.used_space)

\* C4: in every strategy a source read that fails with InvalidData after N
\* bytes were copied makes clone_disk return BadSector(N); any other read
\* error is returned as that I/O error.
C4_BadSectorReported ==
    (pc = "done" /\ fault \in ReadErrors)
    => result = (IF fault = "InvalidData" THEN BadSector(bytes_copied) ELSE Io(fault))

\* the digits of (b as a little-endian number) * f.num / f.den, truncated:
\* bytes are the low four base-256 digits, top is what lies above them
Scaled(b, f) ==
    LET m1 == b[1] * f.num
        m2 == b[2] * f.num + m1 \div 256
        m3 == b[3] * f.num + m2 \div 256
        m4 == b[4] * f.num + m3 \div 256
        top == m4 \div 256
        x4 == (top % f.den) * 256 + (m4 % 256)
        x3 == (x4 % f.den) * 256 + (m3 % 256)
        x2 == (x3 % f.den) * 256 + (m2 % 256)
        x1 == (x2 % f.den) * 256 + (m1 % 256)
    IN  [top |-> top \div f.den,
         bytes |-> <<x1 \div f.den, x2 \div f.den, x3 \div f.den, x4 \div f.den>>]

\* entry k of the table is not empty and its scaled length exceeds 2^32 - 1
Overflows(table, k, f) ==
    /\ Chunk(table, k)[5] # 0
    /\ Scaled(SubSeq(Chunk(table, k), 13, 16), f).top > 0

\* adjust_partition_table got as far as the entries of the table
TableWasRead ==
    /\ adjustCalled
    /\ dstReadable
    /\ HoldsTable(dst0)
    /\ fault \notin {"seek", "read"}

\* C5: when the rescaler meets a non-empty entry whose scaled length exceeds
\* 2^32 - 1 it returns InvalidLayout and stores nothing in the table.
C5_OverflowRejected ==
    (pc = "done" /\ TableWasRead
        /\ \E k \in 1..4 : Overflows(TableOf(dst0), k, scale_factor))
    => /\ result = InvalidLayout
       /\ dst = dst0

\* C6: after a successful rescale whose results fit in 32 bits the file is
\* the one before the call except that each entry with a non-zero type byte
\* holds, little-endian in bytes 12..15, its old length times the factor
\* truncated toward zero (1000 x 2 = 2000, 1000 x 0.5 = 500, 3 x 0.5 = 1);
\* entries of type 0 are byte-identical, and factor 1 changes nothing.
C6_RescaleTable ==
    (pc = "done" /\ adjustCalled /\ result = Ok
        /\ \A k \in 1..4 : ~Overflows(TableOf(dst0), k, scale_factor))
    => /\ Len(dst) = Len(dst0)
       /\ \A i \in 1..TableOffset : dst[i] = dst0[i]
       /\ \A i \in (TableOffset + TableSize + 1)..Len(dst0) : dst[i] = dst0[i]
       /\ \A k \in 1..4 :
            LET old == Chunk(TableOf(dst0), k)
                new == Chunk(TableOf(dst), k)
                oldLen == SubSeq(old, 13, 16)
                newLen == SubSeq(new, 13, 16)
            IN  /\ SubSeq(new, 1, 12) = SubSeq(old, 1, 12)
                /\ old[5] = 0 => new = old
                /\ old[5] # 0 => newLen = Scaled(oldLen, scale_factor).bytes
                /\ (old[5] # 0 /\ oldLen = <<232, 3, 0, 0>>
                       /\ scale_factor = [num |-> 2, den |-> 1])
                   => newLen = <<208, 7, 0, 0>>
                /\ (old[5] # 0 /\ oldLen = <<232, 3, 0, 0>>
                       /\ scale_factor = [num |-> 1, den |-> 2])
                   => newLen = <<244, 1, 0, 0>>
                /\ (old[5] # 0 /\ oldLen = <<3, 0, 0, 0>>
                       /\ scale_factor = [num |-> 1, den |-> 2])
                   => newLen = <<1, 0, 0, 0>>
       /\ scale_factor = [num |-> 1, den |-> 1] => dst = dst0

C6_Witness ==
    /\ pc = "done"
    /\ adjustCalled
    /\ result = Ok
    /\ scale_factor = [num |-> 1, den |-> 2]
    /\ Chunk(TableOf(dst0), 1)[5] # 0
    /\ SubSeq(Chunk(TableOf(dst0), 1), 13, 16) = <<232, 3, 0, 0>>
    /\ SubSeq(Chunk(TableOf(dst), 1), 13, 16) = <<244, 1, 0, 0>>
    /\ Chunk(TableOf(dst0), 2)[5] = 0
    /\ SubSeq(Chunk(TableOf(dst), 4), 13, 16) = <<1, 0, 0, 0>>

\* C7: when dest_path names no file and the source is readable, clone_disk
\* creates the destination and goes on to the copy strategy; it does not
\* fail for the absence alone.
C7_CreatesAbsentDest ==
    (pc # "start" /\ srcExists /\ ~dstExists0)
    => /\ dstExists
       /\ dstOpen
       /\ result # Io("NotFound")

\* C8: in AutoFit with source.total_size <= dest.total_size, no fault and a
\* destination that holds the table region, clone_disk ends with success,
\* the copy done and the table rescaled; and the rescaler runs only after a
\* copy step that returned no error.
C8_AutoFitRescales ==
    /\ (mode = "AutoFit" /\ pc = "done" /\ srcExists /\ dstExists0
           /\ Len(src) <= Len(dst0) /\ HoldsTable(dst0) /\ fault = "none")
       => /\ result = Ok
          /\ adjustCalled
          /\ SubSeq(dst, 1, Len(src)) = src
          /\ TableOf(dst) = AdjustTable(TableOf(dst0), scale_factor)
    /\ (pc = "adjust" \/ adjustCalled)
       => (mode = "AutoFit" /\ bytes_copied = source_info.used_space)

C10_Progress ==
    /\ [](/\ progress \in 0..100
          /\ observed.num \in 0..100
          /\ observed.num <= progress
          /\ progress = 100 => (bytes_copied = Target /\ Target > 0))
    /\ [][progress' >= progress]_vars

C10_Witness ==
    /\ progress > 0
    /\ progress < 100
    /\ observed.polled
    /\ observed.num > 0
    /\ observed.num < progress

====
